---- MODULE Spec2Model ----
(***************************************************************************)
(* The inbound resolution protocol of crates/apub/src/objects/comment.rs:  *)
(* ApubComment::from_apub, read_from_apub_id and delete, together with the *)
(* collaborators they call (ObjectId::dereference, Note::get_parents,      *)
(* verify_person_in_community, Comment::upsert), which live outside this   *)
(* file and are modelled from the specification.                           *)
(***************************************************************************)
EXTENDS Integers, Sequences, FiniteSets, TLC

(***************************************************************************)
(* Bounds of the model.                                                    *)
(***************************************************************************)
\* The ceiling of the shared fetch counter (the specification fixes no value).
Ceiling == 2

\* Upper bound on the rows of the comment table (reached only by a faulty upsert).
MaxRows == 4

\* Upper bound on the depth of the call tree (reached only when the budget
\* fails to stop the recursion).
MaxDepth == 4

\* At most this many stored comments get removed by a moderator, and as
\* many marked read, outside federation.
MaxModerated == 1

(***************************************************************************)
(* The universe of protocol identifiers.                                   *)
(***************************************************************************)
CommentUrls == {"c1", "c2", "c3"}
PostUrls == {"p1", "p2"}
PersonUrls == {"a1", "a2"}
CommunityUrls == {"k1", "k2"}
Domains == {"d1", "d2"}
NoUrl == "none"
Unset == <<>>

\* Url::domain of a comment identifier.
DomainOf(url) == IF url = "c2" THEN "d2" ELSE "d1"

(***************************************************************************)
(* The remote servers: what a fetch of each identifier returns.            *)
(***************************************************************************)
\* Page objects: creator, community, locked.
RemotePost(p) ==
  CASE p = "p1" -> [creator |-> "a1", community |-> "k1", locked |-> FALSE]
    [] p = "p2" -> [creator |-> "a1", community |-> "k2", locked |-> TRUE]
    [] OTHER -> [creator |-> NoUrl, community |-> NoUrl, locked |-> FALSE]

\* Community k2 restricts posting to its members; k1 is open.
PostingRestricted(k) == k = "k2"
Members(k) == IF k = "k2" THEN {"a1"} ELSE {}

\* The reply graphs the remote servers may serve: in_reply_to of each Note.
ReplyGraphs == [CommentUrls -> PostUrls \cup CommentUrls]

(***************************************************************************)
(* Body text: a sequence of tokens.  The three conversions are computed    *)
(* token by token, as lemmy_utils and html2md compute them on characters.  *)
(***************************************************************************)
RECURSIVE remove_slurs(_)
\* lemmy_utils::utils::remove_slurs: every match of the slur pattern is
\* replaced by "*removed*".
remove_slurs(text) ==
  IF text = <<>> THEN <<>>
  ELSE <<IF Head(text) = "slur" THEN "*removed*" ELSE Head(text)>>
         \o remove_slurs(Tail(text))

RECURSIVE HtmlToMd(_, _)
\* html2md: the content of a script element is dropped, bold becomes "**",
\* paragraph tags vanish, text is kept.
HtmlToMd(html, inScript) ==
  IF html = <<>> THEN <<>>
  ELSE LET t == Head(html)
           r == Tail(html)
       IN  CASE t = "<script>" -> HtmlToMd(r, TRUE)
             [] t = "</script>" -> HtmlToMd(r, FALSE)
             [] inScript -> HtmlToMd(r, TRUE)
             [] t \in {"<b>", "</b>", "<strong>", "</strong>"} ->
                  <<"**">> \o HtmlToMd(r, FALSE)
             [] t \in {"<p>", "</p>"} -> HtmlToMd(r, FALSE)
             [] OTHER -> <<t>> \o HtmlToMd(r, FALSE)

parse_html(html) == HtmlToMd(html, FALSE)

RECURSIVE MdToHtml(_, _)
\* markdown rendering of the inline part: "**" and "__" open and close
\* strong.
MdToHtml(md, open) ==
  IF md = <<>> THEN <<>>
  ELSE LET t == Head(md)
       IN  IF t \in {"**", "__"}
             THEN <<IF open THEN "</strong>" ELSE "<strong>">>
                    \o MdToHtml(Tail(md), ~open)
             ELSE <<t>> \o MdToHtml(Tail(md), open)

markdown_to_html(md) == <<"<p>">> \o MdToHtml(md, FALSE) \o <<"</p>">>

\* The Markdown bodies the three remote replies were written with.
RemoteMarkdown(c) ==
  CASE c = "c1" -> <<"**", "hello", "**">>
    [] c = "c2" -> <<"hello">>
    [] OTHER -> <<"slur", "hello">>

\* The source field of the Note a peer serves: a Lemmy peer attaches the
\* Markdown, another peer (c2) attaches none.
RemoteSource(c) ==
  IF c = "c2" THEN [kind |-> "Unknown", content |-> <<>>]
  ELSE [kind |-> "Lemmy", content |-> RemoteMarkdown(c)]

\* The rendered content field of the Note a peer serves.
RemoteContent(c) ==
  IF c = "c2" THEN <<"<script>", "evil", "</script>", "<b>", "hello", "</b>">>
  ELSE markdown_to_html(RemoteMarkdown(c))

\* The author of each remote reply.
RemoteAuthor(c) == IF c = "c2" THEN "a2" ELSE "a1"

\* Timestamps are numbers; an Option is the empty or the one-element
\* sequence.  A row inserted without a published time gets the later one.
Timestamps == {1, 2}
InsertTime == CHOOSE t \in Timestamps : \A u \in Timestamps : u <= t

\* The published and updated fields of the Note a peer serves: c1 was
\* edited, c2 (not a Lemmy peer) states no time at all.
RemotePublished(c) == IF c = "c2" THEN <<>> ELSE <<1>>
RemoteUpdated(c) == IF c = "c1" THEN <<2>> ELSE <<>>

(***************************************************************************)
(* State.                                                                  *)
(***************************************************************************)
VARIABLES
  replyTo,          \* the reply graph the remote servers serve (fixed at Init)
  banned,           \* community bans held in local storage: <<person, community>>
  comments,         \* the comment table: a sequence of rows, row id = index
  persons,          \* protocol identifiers of the locally known actors
  posts,            \* protocol identifiers of the locally known posts
  communities,      \* protocol identifiers of the locally known communities
  stack,            \* the call tree of the running conversion, innermost last
  request_counter,  \* the shared fetch counter of the running call tree
  top,              \* the top-level operation running or last run
  result,           \* its outcome: status ("running", "ok" or the error) and
                    \* the top-level frame as it stood when the call ended
  start,            \* the storage as it was when the top-level operation began
  fetchLog,         \* identifiers fetched over the network in this call tree
  delivered,        \* identifiers whose top-level from_apub has succeeded before
  tombstoned,       \* identifiers whose tombstone has hit a known row before
  again,            \* the running operation repeats an earlier successful one
  parked,           \* a second delivery suspended at an await, with its own
                    \* call tree, counter and outcome
  entity,           \* the Comment handed to to_apub and to_tombstone
  wire,             \* the Note to_apub returned for it
  tomb,             \* the Tombstone to_tombstone returned for it
  received          \* the body a peer's from_apub derives from that Note

vars == <<replyTo, banned, comments, persons, posts, communities, stack,
          request_counter, top, result, start, fetchLog, delivered,
          tombstoned, again, parked, entity, wire, tomb, received>>

conc == <<parked>>
outbound == <<entity, wire, tomb, received>>

world == <<replyTo, banned>>
storage == <<comments, persons, posts, communities>>
history == <<delivered, tombstoned>>

\* The Note served for (or delivered with) identifier c.
Note(c) ==
  [id |-> c,
   attributed_to |-> RemoteAuthor(c),
   in_reply_to |-> replyTo[c],
   content |-> RemoteContent(c),
   source |-> RemoteSource(c),
   published |-> RemotePublished(c),
   updated |-> RemoteUpdated(c)]

Snapshot ==
  [comments |-> comments, persons |-> persons, posts |-> posts,
   communities |-> communities]

\* Row indices holding protocol identifier `url`.
RowsOf(rows, url) == {i \in DOMAIN rows : rows[i].ap_id = url}

(***************************************************************************)
(* Storage operations on the comment table.                                *)
(***************************************************************************)
\* ApubComment::read_from_apub_id: the id of the row with this protocol
\* identifier, 0 for None.
read_from_apub_id(rows, object_id) ==
  IF RowsOf(rows, object_id) = {} THEN 0
  ELSE CHOOSE i \in RowsOf(rows, object_id) :
         \A j \in RowsOf(rows, object_id) : i <= j

\* A delete that removes the row.
deleteHard(rows, id) == SubSeq(rows, 1, id - 1) \o SubSeq(rows, id + 1, Len(rows))

\* A delete that flips the flag instead of setting it.
deleteToggle(rows, id) == [rows EXCEPT ![id].deleted = ~@]

\* ApubComment::delete: Comment::update_deleted(conn, self.id, true).
delete(rows, id) == [rows EXCEPT ![id].deleted = TRUE]

\* The form with the protocol identifier left out.
CommentFormWithoutApId(creator, post, parent_comment_id, content_slurs_removed, published, updated, ap_id) ==
  [creator_id |-> creator,
   post_id |-> post,
   parent_id |-> parent_comment_id,
   content |-> content_slurs_removed,
   removed |-> Unset,
   read |-> Unset,
   published |-> published,
   updated |-> updated,
   deleted |-> Unset,
   ap_id |-> NoUrl,
   local |-> FALSE]

\* The form with the three flags written as false instead of left unset.
CommentFormResettingFlags(creator, post, parent_comment_id, content_slurs_removed, published, updated, ap_id) ==
  [creator_id |-> creator,
   post_id |-> post,
   parent_id |-> parent_comment_id,
   content |-> content_slurs_removed,
   removed |-> <<FALSE>>,
   read |-> <<FALSE>>,
   published |-> published,
   updated |-> updated,
   deleted |-> <<FALSE>>,
   ap_id |-> ap_id,
   local |-> FALSE]

\* The CommentForm built by from_apub.
CommentForm(creator, post, parent_comment_id, content_slurs_removed, published, updated, ap_id) ==
  [creator_id |-> creator,
   post_id |-> post,
   parent_id |-> parent_comment_id,
   content |-> content_slurs_removed,
   removed |-> Unset,
   read |-> Unset,
   published |-> published,
   updated |-> updated,
   deleted |-> Unset,
   ap_id |-> ap_id,
   local |-> FALSE]

\* A flag of the form written over the stored one: an unset field of the
\* form leaves the column as it is (its default on insert).
Flag(formValue, stored) == IF formValue = Unset THEN stored ELSE formValue[1]

RowOf(form, old) ==
  [ap_id |-> form.ap_id,
   creator |-> form.creator_id,
   post |-> form.post_id,
   parent |-> form.parent_id,
   content |-> form.content,
   removed |-> Flag(form.removed, old.removed),
   read |-> Flag(form.read, old.read),
   published |-> Flag(form.published, old.published),
   updated |-> IF form.updated = Unset THEN old.updated ELSE form.updated,
   deleted |-> Flag(form.deleted, old.deleted),
   local |-> form.local]

\* What an insert gives the columns the form leaves unset: the flags are
\* false, published is the time of the insert, updated is null.
ColumnDefaults ==
  [removed |-> FALSE, read |-> FALSE, deleted |-> FALSE,
   published |-> InsertTime, updated |-> <<>>]

\* Comment::upsert: insert, or on a conflict on ap_id overwrite the row.
\* A form without ap_id gets the column's generated identifier and so
\* never conflicts.
upsert(rows, form) ==
  LET hit == IF form.ap_id = NoUrl THEN 0 ELSE read_from_apub_id(rows, form.ap_id)
  IN  IF hit = 0
        THEN Append(rows, RowOf(form, ColumnDefaults))
        ELSE [rows EXCEPT ![hit] = RowOf(form, rows[hit])]

(***************************************************************************)
(* Outbound conversion of a Comment, a row of the comment table.           *)
(***************************************************************************)

\* The bodies a comment is stored with on the instance it was written on.
Bodies ==
  {<<"hello">>, <<"**", "hello", "**">>, <<"__", "hello", "__">>,
   <<"slur", "hello">>, <<"*removed*", "hello">>}

\* The table the comments handed to to_apub refer to: one reply to the post.
ParentTable ==
  <<[ap_id |-> "c1", creator |-> "a1", post |-> "p1", parent |-> 0,
     content |-> <<"hello">>, removed |-> FALSE, read |-> FALSE,
     published |-> 1, updated |-> <<>>, deleted |-> FALSE, local |-> TRUE]>>

\* The comments handed to to_apub and to_tombstone.
Entities ==
  [ap_id : {"c3"}, creator : {"a1"}, post : {"p1"},
   parent : {0} \cup DOMAIN ParentTable,
   content : Bodies, removed : BOOLEAN, read : {FALSE}, deleted : BOOLEAN,
   local : BOOLEAN, published : Timestamps,
   updated : {<<>>} \cup {<<t>> : t \in Timestamps}]

\* to_apub with the source attached for a local comment only.
to_apubSourceForLocal(self, creator, post, parent_comment) ==
  [type |-> "Note",
   id |-> self.ap_id,
   attributed_to |-> creator,
   to |-> <<"public">>,
   content |-> markdown_to_html(self.content),
   media_type |-> <<"text/html">>,
   source |-> IF self.local
                THEN [kind |-> "Lemmy", content |-> self.content,
                      media_type |-> "text/markdown"]
                ELSE [kind |-> "Other", content |-> <<>>, media_type |-> "none"],
   in_reply_to |-> IF self.parent /= 0 THEN parent_comment.ap_id
                   ELSE post,
   published |-> <<self.published>>,
   updated |-> self.updated]

\* to_apub with the post as the reply target of every comment.
to_apubReplyingToPost(self, creator, post, parent_comment) ==
  [type |-> "Note",
   id |-> self.ap_id,
   attributed_to |-> creator,
   to |-> <<"public">>,
   content |-> markdown_to_html(self.content),
   media_type |-> <<"text/html">>,
   source |-> [kind |-> "Lemmy", content |-> self.content,
               media_type |-> "text/markdown"],
   in_reply_to |-> post,
   published |-> <<self.published>>,
   updated |-> self.updated]

\* ApubComment::to_apub once its reads have returned: `creator` is the
\* actor_id of the Person read, `post` the ap_id of the Post read,
\* `parent_comment` the Comment read when parent_id is set.  The reply
\* target is the parent comment's ap_id if parent_id is set, else the
\* post's; the content is rendered and the Markdown attached as source.
to_apub(self, creator, post, parent_comment) ==
  [type |-> "Note",
   id |-> self.ap_id,
   attributed_to |-> creator,
   to |-> <<"public">>,
   content |-> markdown_to_html(self.content),
   media_type |-> <<"text/html">>,
   source |-> [kind |-> "Lemmy", content |-> self.content,
               media_type |-> "text/markdown"],
   in_reply_to |-> IF self.parent /= 0 THEN parent_comment.ap_id
                   ELSE post,
   published |-> <<self.published>>,
   updated |-> self.updated]

\* to_tombstone refusing a comment that is neither deleted nor removed.
to_tombstoneOfDeleted(self) ==
  IF self.deleted \/ self.removed
    THEN [produced |-> TRUE, type |-> "Note",
          deleted |-> IF self.updated /= <<>> THEN self.updated[1]
                      ELSE self.published]
    ELSE [produced |-> FALSE]

\* ApubComment::to_tombstone:
\* Tombstone::new(NoteType::Note, self.updated.unwrap_or(self.published)).
to_tombstone(self) ==
  [produced |-> TRUE, type |-> "Note",
   deleted |-> IF self.updated /= <<>> THEN self.updated[1]
               ELSE self.published]

(***************************************************************************)
(* Collaborators of from_apub.                                             *)
(***************************************************************************)
\* Note::id: the identifier, provided its domain is the expected one.
NoteIdOk(note, expected_domain) == DomainOf(note.id) = expected_domain

\* The ceiling compared after the increment it should precede.
DereferenceOutcomeOffByOne(known) ==
  IF known THEN "known"
  ELSE IF request_counter > Ceiling THEN "exhausted"
  ELSE "fetch"

\* A known entity fetched again while the budget lasts.
DereferenceOutcomeRefetchKnown(known) ==
  IF request_counter < Ceiling THEN "fetch"
  ELSE IF known THEN "known"
  ELSE "exhausted"

\* ObjectId::dereference: an identifier known locally costs nothing; an
\* unknown one fails when the counter is at or above the ceiling and is
\* fetched otherwise.
DereferenceOutcome(known) ==
  IF known THEN "known"
  ELSE IF request_counter >= Ceiling THEN "exhausted"
  ELSE "fetch"

\* The outcomes of the transport collaborator's fetch-and-verify.
Transport == {"ok", "Unreachable"}

\* verify_person_in_community: the actor is not banned from the community
\* and holds the membership a restricted community asks for.
Permitted(person, community) ==
  /\ <<person, community>> \notin banned
  /\ PostingRestricted(community) => person \in Members(community)

(***************************************************************************)
(* The call tree.  A frame is one running from_apub: of a Note (kind       *)
(* "comment") or of the Page a reply chain ends in (kind "post").          *)
(***************************************************************************)
Frame(kind, url, expected_domain, pc) ==
  [kind |-> kind, url |-> url, expected |-> expected_domain, pc |-> pc,
   ap_id |-> NoUrl, creator |-> NoUrl, post |-> NoUrl, parent |-> 0,
   community |-> NoUrl, trace |-> <<>>, awaiting |-> NoUrl]

NoFrame == Frame("none", NoUrl, NoUrl, "none")

Idle == stack = <<>>

\* A call of from_apub with what is its own: the call tree, the counter it
\* was given, its outcome and the fetches it made.
Context(id, frames, counter, outcome, fetches) ==
  [op |-> "call", id |-> id, stack |-> frames, request_counter |-> counter,
   result |-> outcome, fetchLog |-> fetches]

\* No second delivery, no entity, no Note, no Tombstone, no body.
NoContext ==
  [op |-> "none", id |-> NoUrl, stack |-> <<>>, request_counter |-> 0,
   result |-> [status |-> "none", frame |-> NoFrame], fetchLog |-> <<>>]
NoEntity == [ap_id |-> NoUrl]
NoNote == [id |-> NoUrl]
NoWire ==
  [pc |-> "none", creator |-> NoUrl, post |-> NoUrl, note |-> NoNote,
   error |-> "none"]
NoTombstone == [called |-> FALSE]
NoBody == <<"-">>

Depth == Len(stack)
Cur == stack[Depth]
\* The running from_apub is about to run statement pc; it is not suspended
\* on a fetch.
At(kind, pc) ==
  ~Idle /\ Cur.kind = kind /\ Cur.pc = pc /\ Cur.awaiting = NoUrl

\* The running from_apub has sent the request for `awaiting` and is
\* suspended until the answer comes.
Suspended == ~Idle /\ Cur.awaiting /= NoUrl

\* The frame f suspended on the fetch of x.
Await(f, x) == [f EXCEPT !.awaiting = x]

\* The frame f after `step`, waiting at `pc`.
Advance(f, step, pc) == [f EXCEPT !.pc = pc, !.trace = Append(@, step)]

\* An error propagates through every `?` up to the top-level caller.
Abort(err) ==
  /\ stack' = <<>>
  /\ result' = [status |-> err, frame |-> stack[1]]

Continue(f) ==
  /\ stack' = [stack EXCEPT ![Depth] = f]
  /\ result' = result

Init ==
  /\ replyTo \in ReplyGraphs
  /\ banned \in SUBSET {<<"a2", "k1">>}
  /\ comments = <<>>
  /\ persons = {}
  /\ posts = {}
  /\ communities \in SUBSET {"k1"}
  /\ stack = <<>>
  /\ request_counter = 0
  /\ top = [op |-> "none", id |-> NoUrl, expected |-> NoUrl]
  /\ result = [status |-> "none", frame |-> NoFrame]
  /\ start = Snapshot
  /\ fetchLog = <<>>
  /\ delivered = {}
  /\ tombstoned = {}
  /\ again = FALSE
  /\ parked = NoContext
  /\ entity = NoEntity
  /\ wire = NoWire
  /\ tomb = NoTombstone
  /\ received = NoBody

\* An inbound delivery: ApubComment::from_apub(note, context,
\* expected_domain, &mut 0) is called.
Deliver(c, expected_domain) ==
  /\ Idle
  /\ Len(comments) < MaxRows
  /\ stack' = <<Frame("comment", c, expected_domain, "validate")>>
  /\ request_counter' = 0
  /\ top' = [op |-> "from_apub", id |-> c, expected |-> expected_domain]
  /\ result' = [status |-> "running", frame |-> NoFrame]
  /\ start' = Snapshot
  /\ fetchLog' = <<>>
  /\ again' = (c \in delivered)
  /\ UNCHANGED <<world, conc, outbound, storage, history>>

\* The same step with the identifier taken as it is.
ValidateIdSkipped ==
  /\ At("comment", "validate")
  /\ Continue(Advance([Cur EXCEPT !.ap_id = Note(Cur.url).id],
                      "validate", "creator"))
  /\ UNCHANGED <<world, conc, outbound, storage, history, request_counter, top, start,
                 fetchLog, again>>

\* let ap_id = Some(note.id(expected_domain)?.clone().into());
ValidateId ==
  /\ At("comment", "validate")
  /\ IF NoteIdOk(Note(Cur.url), Cur.expected)
       THEN Continue(Advance([Cur EXCEPT !.ap_id = Note(Cur.url).id],
                             "validate", "creator"))
       ELSE Abort("ValidationFailure")
  /\ UNCHANGED <<world, conc, outbound, storage, history, request_counter, top, start,
                 fetchLog, again>>

\* let creator = note.attributed_to.dereference(context, request_counter).await?;
ResolveCreator ==
  /\ At("comment", "creator")
  /\ LET a == Note(Cur.url).attributed_to
         o == DereferenceOutcome(a \in persons)
     IN  CASE o = "known" ->
                /\ Continue(Advance([Cur EXCEPT !.creator = a],
                                    "creator", "parents"))
                /\ UNCHANGED <<request_counter, fetchLog>>
           [] o = "exhausted" ->
                /\ Abort("ResolutionBudgetExhausted")
                /\ UNCHANGED <<request_counter, fetchLog>>
           [] o = "fetch" ->
                /\ request_counter' = request_counter + 1
                /\ fetchLog' = Append(fetchLog, a)
                /\ Continue(Await(Cur, a))
  /\ UNCHANGED <<world, conc, outbound, storage, history, top, start, again>>

\* The body always derived from the rendered content.
BodyOfFromHtml(note) ==
  remove_slurs(parse_html(note.content))

\* The body of the reply: the Markdown of a Lemmy source, else the
\* rendered content converted back; then the slur filter.
BodyOf(note) ==
  remove_slurs(IF note.source.kind = "Lemmy"
                 THEN note.source.content
                 ELSE parse_html(note.content))

\* get_parents over the comment table `rows`, which it leaves in storage:
\* the reply target is dereferenced as a post or a comment; an unknown one
\* is fetched and converted by its own from_apub with the same counter.
GetParentsOn(rows) ==
  /\ At("comment", "parents")
  /\ Depth < MaxDepth
  /\ comments' = rows
  /\ LET t == Note(Cur.url).in_reply_to
         isPost == t \in PostUrls
         row == read_from_apub_id(rows, t)
         o == DereferenceOutcome(IF isPost THEN t \in posts ELSE row /= 0)
     IN  CASE o = "known" ->
                /\ Continue(Advance(
                     IF isPost
                       THEN [Cur EXCEPT !.post = t, !.parent = 0]
                       ELSE [Cur EXCEPT !.post = rows[row].post,
                                        !.parent = row],
                     "parents", "community"))
                /\ UNCHANGED <<request_counter, fetchLog>>
           [] o = "exhausted" ->
                /\ Abort("ResolutionBudgetExhausted")
                /\ UNCHANGED <<request_counter, fetchLog>>
           [] o = "fetch" ->
                /\ request_counter' = request_counter + 1
                /\ fetchLog' = Append(fetchLog, t)
                /\ Continue(Await(Cur, t))
  /\ UNCHANGED <<world, conc, outbound, persons, posts, communities, history, top, start,
                 again>>

\* The same step with the reply stored before its reply target is resolved.
GetParentsCachingFirst ==
  GetParentsOn(upsert(comments,
                      CommentForm(Cur.creator, NoUrl, 0, BodyOf(Note(Cur.url)),
                                  Note(Cur.url).published,
                                  Note(Cur.url).updated, Cur.ap_id)))

\* let (post, parent_comment_id) = note.get_parents(context, request_counter).await?;
GetParents ==
  GetParentsOn(comments)

\* The same step handing over to the locked-post check directly.
ReadCommunityThenLocked ==
  /\ At("comment", "community")
  /\ LET k == RemotePost(Cur.post).community
     IN  IF k \in communities
           THEN Continue(Advance([Cur EXCEPT !.community = k],
                                 "community", "locked"))
           ELSE Abort("StorageFailure")
  /\ UNCHANGED <<world, conc, outbound, storage, history, request_counter, top, start,
                 fetchLog, again>>

\* let community = blocking(.., Community::read(conn, post.community_id)).await??;
ReadCommunity ==
  /\ At("comment", "community")
  /\ LET k == RemotePost(Cur.post).community
     IN  IF k \in communities
           THEN Continue(Advance([Cur EXCEPT !.community = k],
                                 "community", "verify"))
           ELSE Abort("StorageFailure")
  /\ UNCHANGED <<world, conc, outbound, storage, history, request_counter, top, start,
                 fetchLog, again>>

\* The same step with the verification left out.
VerifyPersonSkipped ==
  /\ At("comment", "verify")
  /\ Continue(Advance(Cur, "verify", "locked"))
  /\ UNCHANGED <<world, conc, outbound, storage, history, request_counter, top, start,
                 fetchLog, again>>

\* The trust check with the author `known` or not to the dereference it
\* makes of note.attributed_to with the shared counter.
VerifyPersonOn(known) ==
  /\ At("comment", "verify")
  /\ LET a == Note(Cur.url).attributed_to
         o == DereferenceOutcome(known)
     IN  /\ request_counter' = request_counter + (IF o = "fetch" THEN 1 ELSE 0)
         /\ fetchLog' = IF o = "fetch" THEN Append(fetchLog, a) ELSE fetchLog
         /\ IF o = "exhausted" THEN Abort("ResolutionBudgetExhausted")
            ELSE IF o = "fetch" THEN Continue(Await(Cur, a))
            ELSE IF Permitted(a, Cur.community)
              THEN Continue(Advance(Cur, "verify", "locked"))
              ELSE Abort("NotPermitted")
  /\ UNCHANGED <<world, conc, outbound, storage, history, top, start, again>>

\* The same step resolving the author afresh.
VerifyPersonRefetching ==
  VerifyPersonOn(FALSE)

\* verify_person_in_community(&note.attributed_to, &community.into(),
\*                            context, request_counter).await?;
VerifyPerson ==
  VerifyPersonOn(Note(Cur.url).attributed_to \in persons)

\* The same step with the row written before the lock is looked at.
CheckLockedAfterUpsert ==
  /\ At("comment", "locked")
  /\ comments' = upsert(comments,
                        CommentForm(Cur.creator, Cur.post, Cur.parent,
                                    BodyOf(Note(Cur.url)),
                                    Note(Cur.url).published,
                                    Note(Cur.url).updated, Cur.ap_id))
  /\ IF RemotePost(Cur.post).locked
       THEN Abort("ThreadClosed")
       ELSE Continue(Advance(Cur, "locked", "upsert"))
  /\ UNCHANGED <<world, conc, outbound, persons, posts, communities, history,
                 request_counter, top, start, fetchLog, again>>

\* The same step with the lock never looked at.
CheckLockedIgnored ==
  /\ At("comment", "locked")
  /\ Continue(Advance(Cur, "locked", "upsert"))
  /\ UNCHANGED <<world, conc, outbound, storage, history, request_counter, top, start,
                 fetchLog, again>>

\* if post.locked { return Err(anyhow!("Post is locked").into()); }
CheckLocked ==
  /\ At("comment", "locked")
  /\ IF RemotePost(Cur.post).locked
       THEN Abort("ThreadClosed")
       ELSE Continue(Advance(Cur, "locked", "upsert"))
  /\ UNCHANGED <<world, conc, outbound, storage, history, request_counter, top, start,
                 fetchLog, again>>

\* The same step with an upsert that is not atomic: whether the row exists
\* was read when the delivery began, and the insert or update decided then
\* is carried out now.
UpsertCommentFromStaleRead ==
  /\ At("comment", "upsert")
  /\ LET form == CommentForm(Cur.creator, Cur.post, Cur.parent,
                             BodyOf(Note(Cur.url)), Note(Cur.url).published,
                             Note(Cur.url).updated, Cur.ap_id)
         rows == IF RowsOf(start.comments, form.ap_id) = {}
                   THEN Append(comments, RowOf(form, ColumnDefaults))
                   ELSE upsert(comments, form)
         id == read_from_apub_id(rows, form.ap_id)
     IN  /\ comments' = rows
         /\ IF Depth = 1
              THEN /\ stack' = <<>>
                   /\ result' = [status |-> "ok",
                                  frame |-> Advance(Cur, "upsert", "done")]
                   /\ delivered' = delivered \cup {Cur.url}
              ELSE /\ stack' = [SubSeq(stack, 1, Depth - 1) EXCEPT
                                  ![Depth - 1] =
                                    Advance([@ EXCEPT !.post = rows[id].post,
                                                      !.parent = id],
                                            "parents", "community")]
                   /\ result' = result
                   /\ delivered' = delivered
  /\ UNCHANGED <<world, conc, outbound, persons, posts, communities, tombstoned,
                 request_counter, top, start, fetchLog, again>>

\* The form is built and upserted; from_apub returns the row: to the
\* dereference that fetched it (get_parents of the caller goes on with the
\* row's post and id), or to the top-level caller.
UpsertComment ==
  /\ At("comment", "upsert")
  /\ LET form == CommentForm(Cur.creator, Cur.post, Cur.parent,
                             BodyOf(Note(Cur.url)), Note(Cur.url).published,
                             Note(Cur.url).updated, Cur.ap_id)
         rows == upsert(comments, form)
         id == IF form.ap_id = NoUrl THEN Len(rows)
               ELSE read_from_apub_id(rows, form.ap_id)
     IN  /\ comments' = rows
         /\ IF Depth = 1
              THEN /\ stack' = <<>>
                   /\ result' = [status |-> "ok",
                                  frame |-> Advance(Cur, "upsert", "done")]
                   /\ delivered' = delivered \cup {Cur.url}
              ELSE /\ stack' = [SubSeq(stack, 1, Depth - 1) EXCEPT
                                  ![Depth - 1] =
                                    Advance([@ EXCEPT !.post = rows[id].post,
                                                      !.parent = id],
                                            "parents", "community")]
                   /\ result' = result
                   /\ delivered' = delivered
  /\ UNCHANGED <<world, conc, outbound, persons, posts, communities, tombstoned,
                 request_counter, top, start, fetchLog, again>>

(***************************************************************************)
(* The conversion of a fetched Page (ApubPost::from_apub): its creator     *)
(* and its community are dereferenced with the same counter, then the post *)
(* is stored and returned to the get_parents that asked for it.            *)
(***************************************************************************)
PostResolveCreator ==
  /\ At("post", "creator")
  /\ LET a == RemotePost(Cur.url).creator
         o == DereferenceOutcome(a \in persons)
     IN  CASE o = "known" ->
                /\ Continue(Advance([Cur EXCEPT !.creator = a],
                                    "creator", "community"))
                /\ UNCHANGED <<request_counter, fetchLog>>
           [] o = "exhausted" ->
                /\ Abort("ResolutionBudgetExhausted")
                /\ UNCHANGED <<request_counter, fetchLog>>
           [] o = "fetch" ->
                /\ request_counter' = request_counter + 1
                /\ fetchLog' = Append(fetchLog, a)
                /\ Continue(Await(Cur, a))
  /\ UNCHANGED <<world, conc, outbound, storage, history, top, start, again>>

PostResolveCommunity ==
  /\ At("post", "community")
  /\ LET k == RemotePost(Cur.url).community
         o == DereferenceOutcome(k \in communities)
     IN  CASE o = "known" ->
                /\ Continue(Advance([Cur EXCEPT !.community = k],
                                    "community", "upsert"))
                /\ UNCHANGED <<request_counter, fetchLog>>
           [] o = "exhausted" ->
                /\ Abort("ResolutionBudgetExhausted")
                /\ UNCHANGED <<request_counter, fetchLog>>
           [] o = "fetch" ->
                /\ request_counter' = request_counter + 1
                /\ fetchLog' = Append(fetchLog, k)
                /\ Continue(Await(Cur, k))
  /\ UNCHANGED <<world, conc, outbound, storage, history, top, start, again>>

\* The answer to the request a dereference is suspended on.  A failed
\* fetch fails the call tree.  A fetched person or community is stored and
\* handed to the statement that asked for it; a fetched Note or Page is
\* converted by its own from_apub, which stores it when it ends.
FetchReturns ==
  /\ Suspended
  /\ LET x == Cur.awaiting
         f == [Cur EXCEPT !.awaiting = NoUrl]
     IN  \E t \in Transport :
           /\ persons' = IF t = "ok" /\ x \in PersonUrls
                           THEN persons \cup {x} ELSE persons
           /\ communities' = IF t = "ok" /\ x \in CommunityUrls
                               THEN communities \cup {x} ELSE communities
           /\ IF t /= "ok" THEN Abort("TransportFailure")
              ELSE CASE x \in PostUrls ->
                          /\ stack' = Append([stack EXCEPT ![Depth] = f],
                                  Frame("post", x, DomainOf(x), "creator"))
                          /\ result' = result
                     [] x \in CommentUrls ->
                          /\ stack' = Append([stack EXCEPT ![Depth] = f],
                                  Frame("comment", x, DomainOf(x), "validate"))
                          /\ result' = result
                     [] x \in PersonUrls /\ f.kind = "comment" /\ f.pc = "creator" ->
                          Continue(Advance([f EXCEPT !.creator = x],
                                           "creator", "parents"))
                     [] x \in PersonUrls /\ f.kind = "comment" /\ f.pc = "verify" ->
                          IF Permitted(x, f.community)
                            THEN Continue(Advance(f, "verify", "locked"))
                            ELSE Abort("NotPermitted")
                     [] x \in PersonUrls /\ f.kind = "post" ->
                          Continue(Advance([f EXCEPT !.creator = x],
                                           "creator", "community"))
                     [] x \in CommunityUrls ->
                          Continue(Advance([f EXCEPT !.community = x],
                                           "community", "upsert"))
  /\ UNCHANGED <<world, conc, outbound, comments, posts, history,
                 request_counter, top, start, fetchLog, again>>

UpsertPost ==
  /\ At("post", "upsert")
  /\ posts' = posts \cup {Cur.url}
  /\ stack' = [SubSeq(stack, 1, Depth - 1) EXCEPT
                 ![Depth - 1] = Advance([@ EXCEPT !.post = Cur.url, !.parent = 0],
                                        "parents", "community")]
  /\ UNCHANGED <<world, conc, outbound, comments, persons, communities, history,
                 request_counter, top, result, start, fetchLog, again>>

(***************************************************************************)
(* A tombstone arrives for identifier c: the matching row, if any, is      *)
(* deleted through ApubComment::delete.                                    *)
(***************************************************************************)
ApplyTombstone(c) ==
  /\ Idle
  /\ LET id == read_from_apub_id(comments, c)
     IN  /\ comments' = IF id = 0 THEN comments ELSE delete(comments, id)
         /\ tombstoned' = IF id = 0 THEN tombstoned ELSE tombstoned \cup {c}
         /\ again' = (c \in tombstoned)
  /\ top' = [op |-> "tombstone", id |-> c, expected |-> NoUrl]
  /\ result' = [status |-> "ok", frame |-> NoFrame]
  /\ start' = Snapshot
  /\ UNCHANGED <<world, conc, outbound, persons, posts, communities, stack, request_counter,
                 fetchLog, delivered>>

\* ApubComment::delete on a stored comment.
DeleteComment(id) ==
  /\ Idle
  /\ id \in DOMAIN comments
  /\ comments' = delete(comments, id)
  /\ top' = [op |-> "delete", id |-> comments[id].ap_id, expected |-> NoUrl]
  /\ result' = [status |-> "ok", frame |-> NoFrame]
  /\ start' = Snapshot
  /\ again' = comments[id].deleted
  /\ UNCHANGED <<world, conc, outbound, persons, posts, communities, stack,
                 request_counter, fetchLog, history>>

\* Outside federation a moderator removes a stored comment, or the one it
\* answers marks it read.
Moderate(id, column) ==
  /\ Idle
  /\ id \in DOMAIN comments
  /\ Cardinality({i \in DOMAIN comments : comments[i][column]}) < MaxModerated
  /\ comments[id][column] = FALSE
  /\ comments' = [comments EXCEPT ![id][column] = TRUE]
  /\ top' = [op |-> "moderate", id |-> comments[id].ap_id, expected |-> NoUrl]
  /\ result' = [status |-> "ok", frame |-> NoFrame]
  /\ start' = Snapshot
  /\ again' = FALSE
  /\ UNCHANGED <<world, conc, outbound, persons, posts, communities, stack,
                 request_counter, fetchLog, history>>

Next ==
  \/ \E c \in CommentUrls, d \in Domains : Deliver(c, d)
  \/ ValidateId
  \/ ResolveCreator
  \/ GetParents
  \/ ReadCommunity
  \/ VerifyPerson
  \/ CheckLocked
  \/ UpsertComment
  \/ PostResolveCreator
  \/ PostResolveCommunity
  \/ UpsertPost
  \/ FetchReturns
  \/ \E c \in CommentUrls : ApplyTombstone(c)
  \/ \E id \in 1..MaxRows : DeleteComment(id)

Spec == Init /\ [][Next]_vars

\* The steps of a running call tree; a call that can step does step.
CallStep ==
  \/ ValidateId
  \/ ResolveCreator
  \/ GetParents
  \/ ReadCommunity
  \/ VerifyPerson
  \/ CheckLocked
  \/ UpsertComment
  \/ PostResolveCreator
  \/ PostResolveCommunity
  \/ UpsertPost
  \/ FetchReturns

\* Deliveries alone, each call tree running on to its end: the future
\* from_apub returns is awaited by its caller, so a call that can step does.
DeliveryNext ==
  \/ \E c \in CommentUrls, d \in Domains : Deliver(c, d)
  \/ CallStep

FairSpec == Init /\ [][DeliveryNext]_vars /\ WF_vars(CallStep)

\* Federation with moderation going on beside it, for a thread whose
\* first reply answers the open post and whose second answers the first,
\* with no author banned.
ModInit ==
  Init /\ replyTo["c1"] = "p1" /\ replyTo["c2"] = "c1" /\ banned = {}

ModNext ==
  \/ Next
  \/ \E id \in 1..MaxRows, column \in {"removed", "read"} : Moderate(id, column)

ModSpec == ModInit /\ [][ModNext]_vars

(***************************************************************************)
(* Two deliveries of the same Note at once.  from_apub is a ?Send future:  *)
(* the two calls run on one thread and interleave at their awaits, that    *)
(* is between the statements.  `parked` is the call that is suspended,     *)
(* with its own call tree, counter and outcome; storage is shared.         *)
(***************************************************************************)
\* While a delivery runs, the same Note is delivered again.
DeliverDuplicate ==
  /\ ~Idle
  /\ top.op = "from_apub"
  /\ parked = NoContext
  /\ parked' = Context(top.id,
                       <<Frame("comment", top.id, top.expected, "validate")>>,
                       0, [status |-> "running", frame |-> NoFrame], <<>>)
  /\ UNCHANGED <<world, outbound, storage, history, stack, request_counter,
                 top, result, start, fetchLog, again>>

\* The running call is suspended at an await, or has returned, and the
\* suspended one goes on.
Switch ==
  /\ parked.stack /= <<>>
  /\ parked' = Context(parked.id, stack, request_counter, result, fetchLog)
  /\ stack' = parked.stack
  /\ request_counter' = parked.request_counter
  /\ result' = parked.result
  /\ fetchLog' = parked.fetchLog
  /\ UNCHANGED <<world, outbound, storage, history, top, start, again>>

\* The deliveries of one thread of replies, with no author banned.
ConcInit ==
  Init /\ replyTo["c1"] = "p1" /\ replyTo["c2"] = "c1" /\ banned = {}

\* A delivery that begins when no call is running or suspended.
DeliverWhenQuiet(c, expected_domain) ==
  /\ parked.stack = <<>>
  /\ Deliver(c, expected_domain)

ConcNext ==
  \/ \E c \in CommentUrls, d \in Domains : DeliverWhenQuiet(c, d)
  \/ CallStep
  \/ DeliverDuplicate
  \/ Switch

ConcSpec == ConcInit /\ [][ConcNext]_vars

(***************************************************************************)
(* The conversions of a stored comment, applied to every comment of        *)
(* Entities: to_apub, to_tombstone, and the body a peer's from_apub        *)
(* derives from the Note to_apub returned.                                 *)
(***************************************************************************)
WireInit ==
  /\ replyTo = [c \in CommentUrls |-> "p1"]
  /\ banned = {}
  /\ comments = ParentTable
  /\ persons = {"a1"}
  /\ posts = {"p1"}
  /\ communities = {"k1"}
  /\ stack = <<>>
  /\ request_counter = 0
  /\ top = [op |-> "none", id |-> NoUrl, expected |-> NoUrl]
  /\ result = [status |-> "none", frame |-> NoFrame]
  /\ start = Snapshot
  /\ fetchLog = <<>>
  /\ delivered = {}
  /\ tombstoned = {}
  /\ again = FALSE
  /\ parked = NoContext
  /\ entity \in Entities
  /\ wire = NoWire
  /\ tomb = NoTombstone
  /\ received = NoBody

\* to_apub reads the creator, the post and, when parent_id is set, the
\* parent comment, each read an await on the pool and each able to fail;
\* `wire` is the call with what it has read so far.
WireFailed(err) == [wire EXCEPT !.pc = "failed", !.error = err]

\* let creator = blocking(.., Person::read(conn, creator_id)).await??;
ToApubReadCreator ==
  /\ wire.pc = "none"
  /\ wire' = IF entity.creator \in persons
               THEN [wire EXCEPT !.pc = "post", !.creator = entity.creator]
               ELSE WireFailed("StorageFailure")
  /\ UNCHANGED <<world, conc, storage, history, stack, request_counter, top,
                 result, start, fetchLog, again, entity, tomb, received>>

\* let post = blocking(.., Post::read(conn, post_id)).await??; without a
\* parent_id the Note is built from what has been read.
ToApubReadPost ==
  /\ wire.pc = "post"
  /\ wire' = IF entity.post \notin posts THEN WireFailed("StorageFailure")
             ELSE IF entity.parent /= 0
               THEN [wire EXCEPT !.pc = "parent", !.post = entity.post]
               ELSE [wire EXCEPT !.pc = "done", !.post = entity.post,
                                 !.note = to_apub(entity, wire.creator,
                                                  entity.post, NoNote)]
  /\ UNCHANGED <<world, conc, storage, history, stack, request_counter, top,
                 result, start, fetchLog, again, entity, tomb, received>>

\* let parent_comment = blocking(.., Comment::read(conn, comment_id)).await??;
\* then the Note is built.
ToApubReadParent ==
  /\ wire.pc = "parent"
  /\ wire' = IF entity.parent \notin DOMAIN comments
               THEN WireFailed("StorageFailure")
               ELSE [wire EXCEPT !.pc = "done",
                                 !.note = to_apub(entity, wire.creator, wire.post,
                                                  comments[entity.parent])]
  /\ UNCHANGED <<world, conc, storage, history, stack, request_counter, top,
                 result, start, fetchLog, again, entity, tomb, received>>

\* The tests' teardown: Comment::delete and cleanup remove the rows the
\* test stored, whatever call is suspended at that moment.
Teardown ==
  /\ comments /= <<>>
  /\ comments' = <<>>
  /\ persons' = {}
  /\ posts' = {}
  /\ communities' = {}
  /\ UNCHANGED <<world, conc, outbound, history, stack, request_counter, top,
                 result, start, fetchLog, again>>

ToTombstone ==
  /\ tomb = NoTombstone
  /\ tomb' = [called |-> TRUE, value |-> to_tombstone(entity)]
  /\ UNCHANGED <<world, conc, storage, history, stack, request_counter, top,
                 result, start, fetchLog, again, entity, wire, received>>

\* Lines 163-168 of a peer's from_apub on the Note.
ReceiveBody ==
  /\ wire.pc = "done"
  /\ received = NoBody
  /\ received' = BodyOf(wire.note)
  /\ UNCHANGED <<world, conc, storage, history, stack, request_counter, top,
                 result, start, fetchLog, again, entity, wire, tomb>>

WireNext ==
  \/ ToApubReadCreator
  \/ ToApubReadPost
  \/ ToApubReadParent
  \/ ToTombstone
  \/ ReceiveBody
  \/ Teardown

WireSpec == WireInit /\ [][WireNext]_vars

(***************************************************************************)
(* Vocabulary of the properties.                                           *)
(***************************************************************************)
\* The last top-level from_apub has returned.
FromApubDone == Idle /\ top.op = "from_apub"
Failed == FromApubDone /\ result.status /= "ok"

\* The rows holding the top-level object's identifier are those of the
\* start of the call, unchanged.
TopRowUntouched ==
  /\ RowsOf(comments, top.id) = RowsOf(start.comments, top.id)
  /\ \A i \in RowsOf(start.comments, top.id) : comments[i] = start.comments[i]

\* Storage holds everything it held at the start of the call.
StoreGrew ==
  /\ start.persons \subseteq persons
  /\ start.posts \subseteq posts
  /\ start.communities \subseteq communities
  /\ Len(start.comments) <= Len(comments)
  /\ \A i \in DOMAIN start.comments : comments[i].ap_id = start.comments[i].ap_id

\* Every stored entity is a completely resolved one.
FullyResolved ==
  /\ \A i \in DOMAIN comments :
       /\ comments[i].creator \in persons
       /\ comments[i].post \in posts
       /\ comments[i].parent /= 0 =>
            /\ comments[i].parent \in DOMAIN comments
            /\ comments[comments[i].parent].post = comments[i].post
  /\ \A p \in posts :
       /\ RemotePost(p).creator \in persons
       /\ RemotePost(p).community \in communities

\* The reply target n steps up the served reply graph.
RECURSIVE Up(_, _)
Up(x, n) ==
  IF n = 0 \/ x \notin CommentUrls THEN x ELSE Up(replyTo[x], n - 1)

\* The chain of c never reaches a post: it runs into a cycle.
LeadsToCycle(c) == Up(c, Cardinality(CommentUrls)) \in CommentUrls

\* The length of the cycle the chain of c runs into.
CycleLen(c) ==
  LET x == Up(c, Cardinality(CommentUrls))
  IN  CHOOSE k \in 1..Cardinality(CommentUrls) :
        /\ Up(x, k) = x
        /\ \A j \in 1..(k - 1) : Up(x, j) /= x

NothingCachedAtStart ==
  /\ start.comments = <<>>
  /\ start.persons = {}
  /\ start.posts = {}
  /\ start.communities = {}

\* Author, reply target and owning community of the top-level object were
\* all known locally when the call began.
AllKnownAtStart ==
  LET n == Note(top.id)
      t == n.in_reply_to
      row == read_from_apub_id(start.comments, t)
      post == IF t \in PostUrls THEN t
              ELSE IF row /= 0 THEN start.comments[row].post ELSE NoUrl
  IN  /\ n.attributed_to \in start.persons
      /\ post \in start.posts
      /\ RemotePost(post).community \in start.communities

Range(seq) == {seq[i] : i \in DOMAIN seq}

\* The steps a from_apub frame has behind it when it reaches the upsert.
StepsBeforeUpsert ==
  <<"validate", "creator", "parents", "community", "verify", "locked">>

\* The statements of from_apub in source order; the last one builds the
\* body (source or parse_html, then remove_slurs) and upserts the form.
StepsOfFromApub == Append(StepsBeforeUpsert, "upsert")

\* Frame f has run exactly the first n statements, in order, holds what
\* they produced and nothing a later one produces.
RanFirst(f, n) ==
  /\ f.trace = SubSeq(StepsOfFromApub, 1, n)
  /\ (f.ap_id /= NoUrl) = (n >= 1)
  /\ (f.creator /= NoUrl) = (n >= 2)
  /\ (f.post /= NoUrl) = (n >= 3)
  /\ (f.community /= NoUrl) = (n >= 4)

\* The position of a statement in from_apub.
StepNo(pc) == CHOOSE n \in 1..Len(StepsOfFromApub) : StepsOfFromApub[n] = pc

(***************************************************************************)
(* Properties.                                                             *)
(***************************************************************************)

\* C1: once from_apub has succeeded for an object, storage holds exactly
\* one row with its protocol identifier, however often it is delivered
\* again; a repeated successful from_apub of the same object updates that
\* row and adds no row to the comment table.
IdempotentFromApub ==
  /\ \A c \in delivered : Cardinality(RowsOf(comments, c)) = 1
  /\ (FromApubDone /\ result.status = "ok" /\ again) =>
       /\ Len(comments) = Len(start.comments)
       /\ RowsOf(comments, top.id) = RowsOf(start.comments, top.id)

\* C1 witness: a second successful from_apub of the same object has ended.
SecondDeliveryDone ==
  /\ FromApubDone /\ result.status = "ok" /\ again
  /\ Cardinality(RowsOf(comments, top.id)) = 1

\* C2 as stated: whenever from_apub fails, storage is what it was before
\* the call.
FailureLeavesStorageAsBefore ==
  Failed => Snapshot = start

\* C2 as amended: a frame reaches the upsert only with every earlier step
\* behind it, and a failed from_apub has not written the row of its own
\* object; whatever the call tree resolved completely before the failure
\* (author, post, community, ancestor replies) stays stored.
SingleCommitPoint ==
  /\ \A i \in DOMAIN stack :
       (stack[i].kind = "comment" /\ stack[i].pc = "upsert") =>
         stack[i].trace = StepsBeforeUpsert
  /\ Failed => (TopRowUntouched /\ StoreGrew /\ FullyResolved)

\* C2 witness: a failed from_apub that left resolved entities behind.
FailedAfterResolving ==
  Failed /\ Snapshot /= start /\ TopRowUntouched

\* C3: the shared counter never exceeds the ceiling, it counts exactly the
\* fetches of the call tree, and a call that ends with the budget exhausted
\* stopped at the ceiling without a further fetch.
BudgetCeiling ==
  /\ request_counter <= Ceiling
  /\ Len(fetchLog) = request_counter
  /\ result.status = "ResolutionBudgetExhausted" =>
       (request_counter = Ceiling /\ Len(fetchLog) = Ceiling)

\* C3 witness: a call tree stopped by the exhausted budget.
BudgetExhaustedAtCeiling ==
  /\ FromApubDone /\ result.status = "ResolutionBudgetExhausted"
  /\ request_counter = Ceiling

\* C4: when author, reply target and owning community are known locally at
\* the start, from_apub performs no fetch and the counter stays 0.
KnownEntitiesCostNothing ==
  (top.op = "from_apub" /\ AllKnownAtStart) =>
    (request_counter = 0 /\ fetchLog = <<>>)

\* C4 witness: a first, successful from_apub of an object whose references
\* were all known.
ResolvedWithoutFetch ==
  /\ FromApubDone /\ result.status = "ok" /\ ~again
  /\ AllKnownAtStart /\ request_counter = 0

\* C5 as stated: with nothing cached, a chain that runs into a cycle of
\* length k ends fully resolved when k <= ceiling and with the budget
\* exhausted when k > ceiling (transport and validation failures aside).
CycleResolvesWithinCeiling ==
  (/\ FromApubDone /\ NothingCachedAtStart /\ LeadsToCycle(top.id)
   /\ result.status \notin {"ValidationFailure", "TransportFailure"}) =>
    IF CycleLen(top.id) <= Ceiling
      THEN result.status = "ok"
      ELSE result.status = "ResolutionBudgetExhausted"

\* A top-level from_apub, begun with nothing cached, of a reply whose chain
\* runs into a cycle.
CycleCall ==
  top.op = "from_apub" /\ NothingCachedAtStart /\ LeadsToCycle(top.id)

\* C5 as amended: such a call always terminates, and whatever the length
\* of the cycle it never ends resolved: it ends with the budget exhausted
\* (or with a transport or validation failure), the call tree never deeper
\* than the fetches made plus one and the fetches never more than the
\* ceiling.
CycleEndsExhausted ==
  /\ [](CycleCall =>
         /\ Depth <= request_counter + 1
         /\ request_counter <= Ceiling
         /\ Idle => result.status \in {"ResolutionBudgetExhausted",
                                       "ValidationFailure",
                                       "TransportFailure"})
  /\ (CycleCall /\ ~Idle) ~> Idle

\* C5 witness: a cycle no longer than the ceiling has exhausted the budget.
ShortCycleExhausted ==
  /\ FromApubDone /\ CycleCall
  /\ CycleLen(top.id) <= Ceiling
  /\ result.status = "ResolutionBudgetExhausted"

\* C6 as stated: when the budget is exhausted, storage and cache are what
\* they were at the start of the top-level call.
ExhaustionPersistsNothing ==
  (FromApubDone /\ result.status = "ResolutionBudgetExhausted") =>
    Snapshot = start

\* C6 as amended: when the budget is exhausted, the top-level reply is not
\* stored and nothing incompletely resolved is; the entities resolved
\* completely earlier in the call tree stay stored.
ExhaustionKeepsOnlyResolved ==
  (FromApubDone /\ result.status = "ResolutionBudgetExhausted") =>
    (TopRowUntouched /\ FullyResolved /\ StoreGrew)

\* C6 witness: the budget ran out after an entity had been fetched and
\* stored.
ExhaustedAfterCaching ==
  /\ FromApubDone /\ result.status = "ResolutionBudgetExhausted"
  /\ Snapshot /= start

\* C7: when the community of the root post is resolved and the author is
\* banned from it or lacks the membership it asks for, from_apub fails with
\* NotPermitted and its upsert is not reached: the reply is not written.
\* Hence no successful from_apub has an author who is not permitted.
TrustEnforced ==
  /\ (/\ FromApubDone
      /\ result.frame.community /= NoUrl
      /\ ~Permitted(Note(top.id).attributed_to, result.frame.community)) =>
        (result.status = "NotPermitted" /\ TopRowUntouched)
  /\ result.status = "NotPermitted" => TopRowUntouched

\* C7 witness: a reply by a banned author was rejected.
BannedAuthorRejected ==
  /\ FromApubDone /\ result.status = "NotPermitted"
  /\ <<Note(top.id).attributed_to, result.frame.community>> \in banned

\* C8 as stated: when the resolved root post is locked, from_apub fails
\* with ThreadClosed and has written nothing to storage.
LockedWritesNothing ==
  (/\ FromApubDone
   /\ result.frame.post /= NoUrl
   /\ RemotePost(result.frame.post).locked) =>
     (result.status = "ThreadClosed" /\ Snapshot = start)

\* C8 as amended: when the resolved root post is locked, from_apub never
\* succeeds: it fails with ThreadClosed once the community is read and the
\* author verified (with NotPermitted when the author is not permitted),
\* and the reply itself is not written; the entities resolved on the way
\* stay stored.
LockedRejected ==
  (/\ FromApubDone
   /\ result.frame.post /= NoUrl
   /\ RemotePost(result.frame.post).locked) =>
     /\ result.status \in {"ThreadClosed", "NotPermitted", "StorageFailure"}
     /\ Permitted(Note(top.id).attributed_to,
                  RemotePost(result.frame.post).community) =>
          result.status \in {"ThreadClosed", "StorageFailure"}
     /\ TopRowUntouched

\* C8 witness: a reply to a locked post was rejected after the post had
\* been fetched and stored in the same call.
LockedRejectedAfterFetch ==
  /\ FromApubDone /\ result.status = "ThreadClosed"
  /\ result.frame.post \notin start.posts
  /\ result.frame.post \in posts

\* C9: an identifier whose domain is not the expected one fails the call
\* with a validation failure before anything is resolved: no step is
\* behind it, counter and storage are unchanged; a successful call stores
\* the reply under exactly the identifier of the wire object.
DomainValidatedFirst ==
  /\ (FromApubDone /\ DomainOf(Note(top.id).id) /= top.expected) =>
       /\ result.status = "ValidationFailure"
       /\ result.frame.trace = <<>>
       /\ request_counter = 0 /\ fetchLog = <<>>
       /\ Snapshot = start
  /\ (FromApubDone /\ result.status = "ok") =>
       /\ DomainOf(Note(top.id).id) = top.expected
       /\ result.frame.ap_id = Note(top.id).id
       /\ RowsOf(comments, Note(top.id).id) /= {}

\* C9 witness: a mismatching delivery was refused although its author was
\* unknown and would have been fetched.
MismatchRefused ==
  /\ FromApubDone /\ result.status = "ValidationFailure"
  /\ Note(top.id).attributed_to \notin persons

\* C10: a tombstone always succeeds; for an unknown identifier it leaves
\* storage unchanged, for a known one it leaves the row deleted with every
\* other column as it was, the first time and every later time.
TombstoneIdempotent ==
  top.op = "tombstone" =>
    LET id == read_from_apub_id(start.comments, top.id)
    IN  /\ result.status = "ok"
        /\ persons = start.persons /\ posts = start.posts
        /\ communities = start.communities
        /\ id = 0 => comments = start.comments
        /\ id /= 0 => comments = [start.comments EXCEPT ![id].deleted = TRUE]
        /\ again => (id /= 0 /\ comments[id].deleted)

\* C10 witness: a second tombstone has been applied to a known row.
SecondTombstoneApplied ==
  /\ top.op = "tombstone" /\ again
  /\ \E i \in RowsOf(comments, top.id) : comments[i].deleted

\* C11: no step of from_apub, of a tombstone or of delete removes a row of
\* the comment table or changes the identifier a row is stored under: the
\* stored reply identifiers never shrink; delete leaves the row in place
\* with deleted = true.
SoftDeleteOnly ==
  [][/\ Len(comments') >= Len(comments)
     /\ \A i \in DOMAIN comments : comments'[i].ap_id = comments[i].ap_id
     /\ (top'.op \in {"delete", "tombstone"} /\ top' /= top) =>
          \A i \in RowsOf(comments, top'.id) : comments'[i].deleted]_vars

\* C11 witness: delete has run on a stored reply, which is still stored.
DeletedRowStillStored ==
  /\ top.op = "delete"
  /\ \E i \in RowsOf(comments, top.id) : comments[i].deleted

\* C17: every from_apub of a Note runs its statements in source order:
\* identifier, author, reply-target chain, community read, trust check,
\* locked-post check, then body and upsert; a frame waiting at a statement
\* has exactly the earlier ones behind it, a frame whose reply target is
\* being converted waits in get_parents, and a call that failed stopped at
\* the failing statement with no later one run.
StepOrder ==
  /\ \A i \in DOMAIN stack :
       stack[i].kind = "comment" =>
         /\ stack[i].pc \in Range(StepsOfFromApub)
         /\ RanFirst(stack[i], StepNo(stack[i].pc) - 1)
         /\ i < Depth => stack[i].pc = "parents"
  /\ Failed =>
       /\ result.frame.pc \in Range(StepsBeforeUpsert)
       /\ RanFirst(result.frame, StepNo(result.frame.pc) - 1)
  /\ (FromApubDone /\ result.status = "ok") =>
       RanFirst(result.frame, Len(StepsOfFromApub))

\* C17 witness: a call the trust check stopped, with the four earlier
\* statements behind it and neither the locked check nor the upsert run.
StoppedAtTrustCheck ==
  /\ Failed
  /\ result.frame.pc = "verify"
  /\ result.frame.trace = <<"validate", "creator", "parents", "community">>

\* C19: the trust check of from_apub fetches nothing: the author it looks
\* up was resolved by the second statement of the same call, so whatever
\* the check decides, the step leaves the shared counter, the fetches made
\* and storage as they were.
TrustCheckFetchesNothing ==
  [][At("comment", "verify") =>
       /\ Note(Cur.url).attributed_to \in persons
       /\ request_counter' = request_counter
       /\ fetchLog' = fetchLog
       /\ storage' = storage
       /\ \/ At("comment", "locked")'
          \/ (Failed' /\ result'.status = "NotPermitted")]_vars

\* C19 witness: the trust check has passed in a call that had fetched
\* before it.
TrustCheckPassedAfterFetch ==
  /\ At("comment", "locked")
  /\ Cur.trace[Len(Cur.trace)] = "verify"
  /\ request_counter >= 1
  /\ Len(fetchLog) = request_counter

\* The flags of a stored row.
FlagsOf(row) == <<row.deleted, row.removed, row.read>>

\* C20: no step of a from_apub call tree changes the deleted, removed or
\* read flag of a row that exists, and no step of from_apub, of a tombstone
\* or of delete takes deleted = true back: a deleted reply stays deleted
\* through every later re-delivery, tombstone and delete.
NoResurrection ==
  [][\A i \in DOMAIN comments :
       /\ comments[i].deleted => comments'[i].deleted
       /\ ~Idle => FlagsOf(comments'[i]) = FlagsOf(comments[i])]_vars

\* C20 witness: a reply that was deleted, removed and read has been
\* delivered again, the delivery succeeded, and the flags are still set.
RedeliveredStillDeleted ==
  /\ FromApubDone /\ result.status = "ok"
  /\ \E i \in RowsOf(comments, top.id) :
       /\ i \in DOMAIN start.comments
       /\ FlagsOf(start.comments[i]) = <<TRUE, TRUE, TRUE>>
       /\ FlagsOf(comments[i]) = <<TRUE, TRUE, TRUE>>

\* The identifier lies on a cycle of the served reply graph.
OnCycle(c) ==
  c \in CommentUrls /\ \E k \in 1..Cardinality(CommentUrls) : Up(c, k) = c

\* Two fetches of the running call tree went to the same identifier.
FetchedTwice ==
  \E i, j \in DOMAIN fetchLog : i < j /\ fetchLog[i] = fetchLog[j]

\* C18 as stated: a fetched reply is in the comment table while its own
\* references are resolved, and no identifier is fetched twice in a call
\* tree.
CacheBeforeRecursion ==
  /\ \A i \in 2..Depth :
       stack[i].kind = "comment" => RowsOf(comments, stack[i].url) /= {}
  /\ ~FetchedTwice

\* C18 as amended: a fetched author or community is stored as soon as its
\* fetch has returned and is never fetched twice; a fetched reply or post
\* is stored by the upsert that ends its own conversion, after its
\* references have been resolved, so while it is converted the table does
\* not hold it and a reference back to it is fetched again at budget cost.
\* Only replies on a cycle of the reply graph are fetched twice.
CacheAfterRecursion ==
  /\ \A i \in 2..Depth :
       /\ stack[i].kind = "comment" => RowsOf(comments, stack[i].url) = {}
       /\ stack[i].kind = "post" => stack[i].url \notin posts
  /\ ~Idle =>
       \A i \in DOMAIN fetchLog :
         fetchLog[i] \in PersonUrls \cup CommunityUrls =>
           \/ fetchLog[i] \in persons \cup communities
           \/ i = Len(fetchLog) /\ Cur.awaiting = fetchLog[i]
  /\ \A i, j \in DOMAIN fetchLog :
       (i < j /\ fetchLog[i] = fetchLog[j]) => OnCycle(fetchLog[i])
  /\ Len(fetchLog) = request_counter

\* C18 witness: a reply referring back to itself was fetched a second time
\* while its first conversion was still running.
ReplyRefetchedWhileConverted ==
  /\ FetchedTwice
  /\ Depth >= 2
  /\ \E i \in 1..(Depth - 1) : stack[i].url = Cur.url

\* The text holds a match of the receiving instance's slur pattern.
HasSlur(text) == \E i \in DOMAIN text : text[i] = "slur"

\* test_parse_lemmy_comment, lines 229-238: the Note to_apub makes of the
\* comment from_apub returned states nothing the Note received does not.
\* It is compared for a Note from a Lemmy peer whose body holds no match of
\* the slur pattern, as the test's note.json is.
test_parse_lemmy_comment ==
  (FromApubDone /\ result.status = "ok" /\ Note(top.id).source.kind = "Lemmy"
     /\ ~HasSlur(Note(top.id).source.content)) =>
    LET comment == comments[read_from_apub_id(comments, top.id)]
        note == to_apub(comment, comment.creator, comment.post,
                        IF comment.parent /= 0 THEN comments[comment.parent]
                        ELSE comment)
        json == Note(top.id)
    IN  /\ comment.ap_id = top.id
        /\ ~comment.local
        /\ note.id = json.id
        /\ note.attributed_to = json.attributed_to
        /\ note.in_reply_to = json.in_reply_to
        /\ note.content = json.content
        /\ note.source.content = json.source.content
        /\ note.published = json.published
        /\ note.updated = json.updated

\* C13 as stated: the body a peer derives from the Note of a locally
\* authored comment equals the stored body exactly.
BodyRoundTripExact ==
  (received /= NoBody /\ entity.local) => received = entity.content

\* C13 as amended: the Note of a comment carries its stored Markdown as a
\* Lemmy source, the peer takes the body from that source and not from the
\* rendered content, and then applies its own slur filter: the body it
\* stores is the original with every match of its pattern replaced, equal
\* to the original exactly when the original holds no match.
BodyRoundTripUpToSlurFilter ==
  received /= NoBody =>
    /\ wire.note.source.kind = "Lemmy"
    /\ wire.note.source.content = entity.content
    /\ received = remove_slurs(entity.content)
    /\ ~HasSlur(entity.content) => received = entity.content
    /\ HasSlur(entity.content) => received /= entity.content

\* C13 witness: a local body whose rendering does not convert back to it
\* was received exactly.
LossyMarkupReceivedExactly ==
  /\ entity.local
  /\ wire.pc = "done"
  /\ received = entity.content
  /\ parse_html(wire.note.content) /= entity.content

\* C14 as stated: the Markdown source block is attached exactly when the
\* comment is local.
SourceBlockByOrigin ==
  wire.pc = "done" => ((wire.note.source.kind = "Lemmy") <=> entity.local)

\* C14 as amended: to_apub attaches the stored Markdown, untouched, as the
\* source block with the markdown media type in the Lemmy variant, beside
\* the rendered content with the html media type, for a local and for a
\* non-local comment alike.
SourceBlockAlways ==
  wire.pc = "done" =>
    /\ wire.note.source = [kind |-> "Lemmy", content |-> entity.content,
                      media_type |-> "text/markdown"]
    /\ wire.note.content = markdown_to_html(entity.content)
    /\ wire.note.media_type = <<"text/html">>
    /\ wire.note.to = <<"public">>

\* C14 witness: the Note of a non-local comment carries the Markdown source.
NonLocalNoteHasSource ==
  /\ wire.pc = "done"
  /\ ~entity.local
  /\ wire.note.source.kind = "Lemmy"
  /\ wire.note.source.content = entity.content

\* C15: the Note to_apub returns has one reply target: the ap_id of the
\* parent comment when parent_id is set, and the ap_id of the post when it
\* is not; it is never missing and never the post for a comment with a
\* parent.
SingleReplyTarget ==
  wire.pc = "done" =>
    /\ wire.note.in_reply_to \in CommentUrls \cup PostUrls
    /\ entity.parent = 0 => wire.note.in_reply_to = entity.post
    /\ entity.parent /= 0 =>
         /\ wire.note.in_reply_to = ParentTable[entity.parent].ap_id
         /\ wire.note.in_reply_to \in CommentUrls
         /\ wire.note.in_reply_to /= entity.post

\* C15 witness: the Note of a comment with a parent names the parent.
NoteNamesParent ==
  /\ wire.pc = "done"
  /\ entity.parent /= 0
  /\ wire.note.in_reply_to = "c1"

\* C16 as stated: a tombstone is returned only for a comment that is
\* deleted or removed.
TombstoneOnlyForDeleted ==
  (tomb.called /\ tomb.value.produced) => (entity.deleted \/ entity.removed)

\* C16 as amended: to_tombstone returns a Tombstone of type Note for every
\* comment, whatever its deleted and removed flags, stamped with updated
\* when it is set and with published otherwise; keeping it to deleted
\* comments is left to the caller.
TombstoneForEveryComment ==
  tomb.called =>
    /\ tomb.value.produced
    /\ tomb.value.type = "Note"
    /\ entity.updated /= <<>> => tomb.value.deleted = entity.updated[1]
    /\ entity.updated = <<>> => tomb.value.deleted = entity.published

\* C16 witness: a tombstone returned for a comment neither deleted nor
\* removed.
TombstoneOfLiveComment ==
  /\ tomb.called /\ tomb.value.produced
  /\ ~entity.deleted /\ ~entity.removed
  /\ entity.updated = <<>>
  /\ tomb.value.deleted = entity.published

\* The suspended call has returned.
ParkedDone == parked /= NoContext /\ parked.stack = <<>>

\* C12: with two from_apub calls of the same Note interleaved in any way
\* and the upsert on ap_id atomic, the comment table never holds two rows
\* with one protocol identifier, and once either call has returned Ok it
\* holds exactly one row for the Note's identifier.
ConcurrentDuplicateSafe ==
  /\ \A c \in CommentUrls : Cardinality(RowsOf(comments, c)) <= 1
  /\ (ParkedDone /\ parked.result.status = "ok") =>
       Cardinality(RowsOf(comments, parked.id)) = 1
  /\ (FromApubDone /\ result.status = "ok") =>
       Cardinality(RowsOf(comments, top.id)) = 1

\* C12 witness: both calls of one Note, not stored when they began, have
\* returned Ok, and they overlapped inside the dereference of the author:
\* neither found the author stored, so each of them fetched it.
BothDeliveriesDone ==
  /\ ParkedDone /\ parked.result.status = "ok"
  /\ FromApubDone /\ result.status = "ok"
  /\ parked.id = top.id
  /\ RowsOf(start.comments, top.id) = {}
  /\ \E i \in DOMAIN fetchLog, j \in DOMAIN parked.fetchLog :
       /\ fetchLog[i] = Note(top.id).attributed_to
       /\ parked.fetchLog[j] = Note(top.id).attributed_to

====
